---- MODULE Spec2Model ----
(***************************************************************************)
(* healthflow-ms: the 30-day readmission label derived by                  *)
(* FeaturizerService.extract_structured_features (featurizer) and the      *)
(* in-memory / on-disk artifact handled by ModelService (model-risque).    *)
(*                                                                         *)
(* The specifications share the variables:                                 *)
(*   SpecFeat   the feature extractor applied to a patient's encounters    *)
(*   SpecScore  the feature extractor applied to a whole resource set      *)
(*   SpecModel  the model service: train_model, predict, load_model and a  *)
(*              process restart, over the four persisted artifact files    *)
(*   SpecEnc    the encoding table of a nominal column: fit in             *)
(*              train_model, saved, reloaded, applied by predict           *)
(*   SpecExpl   the explanation list predict builds from the attributions  *)
(*   SpecRow    the row predict hands to the classifier                    *)
(*   SpecBand   the risk category the three prediction endpoints derive    *)
(*   SpecCache  the featurizer's patient_features table under concurrent   *)
(*              featurize requests, upstream changes and pruning           *)
(*   SpecEmb    the embedding backend of one FeaturizerService             *)
(*   SpecBatch  the batch endpoint predict_data over the predictions table *)
(***************************************************************************)
EXTENDS Integers, Sequences, FiniteSets, TLC

VARIABLES
    resources,  \* featurizer: the "encounters" list of the resource set
    out,        \* featurizer: the feature record of the last extraction
    mem,        \* model service: model, feature_columns, categorical_encoders, shap_explainer
    disk,       \* model service: the four files under TRAINED_MODELS_PATH
    runs,       \* model service: number of training runs started so far
    resp,       \* model service: what the last call returned
    train_column,          \* encoder: the "state" column load_training_data returns
    encoded,               \* encoder: that column as fit=True encoded it for training
    categorical_encoders,  \* encoder: self.categorical_encoders
    encoders_file,         \* encoder: label_encoders.pkl
    enc_out                \* encoder: what the last encoder call did

encVars == <<train_column, encoded, categorical_encoders, encoders_file, enc_out>>

VARIABLES
    shap_values,  \* explanation: the attributions of the scored row, one per feature column
    expl_out      \* explanation: what predict returned

explVars == <<shap_values, expl_out>>

VARIABLES
    feature_columns,  \* row: self.feature_columns, the persisted column list
    features,         \* row: the FeatureVector given to predict
    X                 \* row: the frame given to predict_proba

rowVars == <<feature_columns, features, X>>

VARIABLES
    risk_score,     \* endpoints: the score predict returned, in 1/ScoreSteps
    risk_category   \* endpoints: the category each endpoint derived from it

bandVars == <<risk_score, risk_category>>

VARIABLES
    conditions,           \* featurizer: the codes of the "conditions" list
    observations,         \* featurizer: the "observations" list
    medication_requests,  \* featurizer: length of the "medication-requests" list
    diagnostic_reports    \* featurizer: length of the "diagnostic-reports" list

clinVars == <<conditions, observations, medication_requests, diagnostic_reports>>

VARIABLES
    cache,     \* feature cache: the rows of the patient_features table, in insertion order
    upstream,  \* feature cache: patient -> medication requests the de-identified store holds
    calls,     \* feature cache: the featurize requests, one per worker thread
    now,       \* the clock shared by the requests, in days
    pruned     \* feature cache: what the last prune request returned

cacheVars == <<cache, upstream, calls, now, pruned>>

VARIABLES
    metrics    \* model service: what get_model_metrics returned last

VARIABLES
    env,                \* embedding: USE_BIOBERT, and which backends can be set up
    embedding_backend,  \* embedding: self.embedding_backend of one FeaturizerService
    emb_out             \* embedding: what the last _get_embeddings call returned

embVars == <<env, embedding_backend, emb_out>>

VARIABLES
    prediction_rows,  \* batch endpoint: the rows of the predictions table, in insertion order
    batch_resp        \* batch endpoint: what the last predict_data request returned

batchVars == <<prediction_rows, batch_resp>>

svcVars == <<cacheVars, metrics, embVars, batchVars>>

vars == <<resources, out, mem, disk, runs, resp, encVars, explVars, rowVars, bandVars,
          clinVars, svcVars>>

(***************************************************************************)
(* Bounds                                                                  *)
(***************************************************************************)
MaxEncs == 2        \* encounters per patient
MaxRuns == 2        \* training runs
MaxRows == 11       \* rows returned by load_training_data
MaxPos == 2         \* rows of them labelled true
MaxNulls == 1       \* rows of them with a null label
MaxValues == 3      \* distinct values of a nominal column
MaxColumn == 3      \* rows of the column the encoder is fit on
MaxFeatures == 6    \* feature columns of the model
MaxCols == 2        \* entries of the persisted column list
ScoreSteps == 20    \* risk scores are the multiples of 1/ScoreSteps in [0, 1]
MaxConds == 3       \* conditions per patient
MaxObs == 3         \* observations per patient
MaxDay == 2         \* days the database clock advances
MaxTexts == 2       \* texts of one patient given to _get_embeddings
MaxStored == 2      \* rows of the predictions table

(***************************************************************************)
(* Featurizer: encounters                                                  *)
(***************************************************************************)
\* Time is counted in half days, so that (a - b).days has something to floor.
TicksPerDay == 2
ReadmissionWindowDays == 30

\* Admission instants: day 0 at 12:00, day 30 at 00:00, day 31 at 00:00.
\* Discharge instants: day 0 at 00:00 and at 12:00, day 31 at 00:00.
StartTimes == {1, 60, 62}
EndTimes == {0, 1, 62}

\* A date field: absent/None/"" (falsy), a string dateutil cannot parse, or a
\* string that parses to the instant t.
NoDate == [kind |-> "none", t |-> 0]
BadDate == [kind |-> "bad", t |-> 0]
DateVals(times) == {NoDate, BadDate} \cup {[kind |-> "ok", t |-> x] : x \in times}

\* class_code values: three strings, and the key present with a null value.
NullClass == "None"
ClassCodes == {"IMP", "emer", "AMB", NullClass}

\* length_of_stay_days: absent/None, or a number of days
NoLos == 0 - 1

Encounter == [class_code : ClassCodes, start_date : DateVals(StartTimes),
              end_date : DateVals(EndTimes), length_of_stay_days : {NoLos}]

\* str.upper() on the class codes of the model
Upper(s) == IF s = "emer" THEN "EMER" ELSE s

\* dateutil.parser.parse succeeds
Parsable(d) == d.kind = "ok"

\* timedelta.days of (a - b): the floor of the difference in days
DaysBetween(a, b) == (a - b) \div TicksPerDay

IsIndexClass_any(c) == c \in {"IMP", "EMER", "AMB"}

\* current_class / next_class in ["IMP", "EMER"]
IsIndexClass(c) == c \in {"IMP", "EMER"}

InWindow_excl30(days_diff) == 0 < days_diff /\ days_diff < ReadmissionWindowDays

InWindow_incl0(days_diff) == 0 <= days_diff /\ days_diff <= ReadmissionWindowDays

\* 0 < days_diff <= 30
InWindow(days_diff) == 0 < days_diff /\ days_diff <= ReadmissionWindowDays

\* sorted_encs before the sort: the encounters whose end_date parses, in input order
WithDischarge(encs) == SelectSeq(encs, LAMBDA e : Parsable(e.end_date))

RECURSIVE InsertByEnd(_, _)
InsertByEnd(s, e) ==
    IF s = <<>> THEN <<e>>
    ELSE IF s[Len(s)].end_date.t <= e.end_date.t THEN Append(s, e)
    ELSE Append(InsertByEnd(SubSeq(s, 1, Len(s) - 1), e), s[Len(s)])

RECURSIVE SortByEnd(_)
\* list.sort(key=end_date): ascending and stable
SortByEnd(s) ==
    IF s = <<>> THEN <<>>
    ELSE InsertByEnd(SortByEnd(SubSeq(s, 1, Len(s) - 1)), s[Len(s)])

SortedEncs(encs) == SortByEnd(WithDischarge(encs))

ScanTargets_everyPosition(sorted, discharge, j) ==
    IF \E k \in DOMAIN sorted : sorted[k].class_code = NullClass THEN "raise"
    ELSE IF \E k \in DOMAIN sorted :
                /\ Parsable(sorted[k].start_date)
                /\ IsIndexClass(Upper(sorted[k].class_code))
                /\ InWindow(DaysBetween(sorted[k].start_date.t, discharge))
         THEN "found"
         ELSE "none"

RECURSIVE ScanTargets(_, _, _)
\* the inner loop over j: "found", "none" or "raise" (.upper() on None)
ScanTargets(sorted, discharge, j) ==
    IF j > Len(sorted) THEN "none"
    ELSE LET e == sorted[j] IN
         IF e.class_code = NullClass THEN "raise"
         ELSE IF e.start_date.kind # "none" /\ IsIndexClass(Upper(e.class_code))
              THEN IF ~Parsable(e.start_date)
                   THEN ScanTargets(sorted, discharge, j + 1)
                   ELSE IF InWindow(DaysBetween(e.start_date.t, discharge))
                        THEN "found"
                        ELSE ScanTargets(sorted, discharge, j + 1)
              ELSE ScanTargets(sorted, discharge, j + 1)

RECURSIVE ScanIndex(_, _)
\* the outer loop over i
ScanIndex(sorted, i) ==
    IF i > Len(sorted) THEN "none"
    ELSE LET e == sorted[i] IN
         IF e.class_code = NullClass THEN "raise"
         ELSE IF ~IsIndexClass(Upper(e.class_code)) THEN ScanIndex(sorted, i + 1)
              ELSE LET r == ScanTargets(sorted, e.end_date.t, i + 1) IN
                   IF r = "none" THEN ScanIndex(sorted, i + 1) ELSE r

\* The encounter part of extract_structured_features.  status is "raised"
\* when the call ends in an exception; readmission_30d is then the value the
\* record held at that point.
ExtractEncounterFeatures(encs) ==
    LET sorted == SortedEncs(encs)
        recent == sorted[Len(sorted)]
        recentRaises == sorted # <<>> /\ recent.class_code = NullClass
        scan == IF encs = <<>> \/ recentRaises THEN "none" ELSE ScanIndex(sorted, 1)
        hasRecent == sorted # <<>> /\ ~recentRaises
    IN  [status |-> IF recentRaises \/ scan = "raise" THEN "raised" ELSE "returned",
         num_encounters |-> Len(encs),
         class_code |-> IF hasRecent THEN recent.class_code ELSE "None",
         is_emergency |-> hasRecent /\ Upper(recent.class_code) = "EMER",
         is_inpatient |-> hasRecent /\ Upper(recent.class_code) = "IMP",
         readmission_30d |-> scan = "found"]

(***************************************************************************)
(* Featurizer: conditions, observations, medications, derived indicators   *)
(***************************************************************************)
\* e.get("length_of_stay_days") or 0
LosOrZero(e) == IF e.length_of_stay_days = NoLos THEN 0 ELSE e.length_of_stay_days

RECURSIVE SumLos(_)
SumLos(encs) == IF encs = <<>> THEN 0 ELSE LosOrZero(Head(encs)) + SumLos(Tail(encs))

LongStayDays == 7

\* out["avg_los"] > 7, avg_los being the mean over all encounters (0.0 without any)
HasLongStay(encs) == encs # <<>> /\ SumLos(encs) > LongStayDays * Len(encs)

\* condition codes: a type 2 diabetes code and a cold
ConditionCodes == {"E11.9", "J06.9"}

\* any(chronic in str(code) for chronic in chronic_condition_codes)
IsChronic(code) == code = "E11.9"

HasChronicConditions(conds) == \E i \in DOMAIN conds : IsChronic(conds[i])

\* observations: a high heart rate and a fever
Observation == {[code |-> "heart rate", value_string |-> "High"],
                [code |-> "temperature", value_string |-> "fever"]}

\* str(...).lower() on the value strings of the model
Lower(v) == IF v = "High" THEN "high" ELSE v

\* keyword in value_str, for the value strings of the model
Contains(value_str, keyword) == value_str = keyword

\* any(keyword in value_str for keyword in ["high", "low", "abnormal", "critical"])
IsAbnormal(o) ==
    \E keyword \in {"high", "low", "abnormal", "critical"} :
        Contains(Lower(o.value_string), keyword)

ObsAbnormalCount(obs) == Cardinality({i \in DOMAIN obs : IsAbnormal(obs[i])})

\* the if / elif chain on the terms found in the code of the observation
VitalBranch(o) ==
    IF o.code \in {"glucose", "blood sugar"} THEN "glucose"
    ELSE IF o.code \in {"heart rate", "pulse", "hr"} THEN "hr"
    ELSE IF o.code \in {"temperature", "temp"} THEN "temp"
    ELSE IF o.code \in {"oxygen", "saturation", "spo2"} THEN "saturation"
    ELSE "none"

\* the flag of a branch is set by an observation of that branch whose value
\* string holds one of the words of the branch
HasAbnormalVital(obs, branch, words) ==
    \E i \in DOMAIN obs :
        /\ VitalBranch(obs[i]) = branch
        /\ \E w \in words : Contains(Lower(obs[i].value_string), w)

MinPolypharmacy == 5

Polypharmacy_atMost(meds) == meds <= MinPolypharmacy

\* len(meds) >= 5
Polypharmacy(meds) == meds >= MinPolypharmacy

ClinicalComplexityScore_strict(num_conditions, polypharmacy, long_stay, abnormal, emergency) ==
    (IF num_conditions > 3 THEN 30 ELSE 0)
    + (IF polypharmacy THEN 20 ELSE 0)
    + (IF long_stay THEN 20 ELSE 0)
    + (IF abnormal > 2 THEN 10 ELSE 0)
    + (IF emergency THEN 20 ELSE 0)

\* the score in hundredths: 0.3, 0.2, 0.2, 0.1 and 0.2 added up, then round(.., 2)
ClinicalComplexityScore(num_conditions, polypharmacy, long_stay, abnormal, emergency) ==
    (IF num_conditions >= 3 THEN 30 ELSE 0)
    + (IF polypharmacy THEN 20 ELSE 0)
    + (IF long_stay THEN 20 ELSE 0)
    + (IF abnormal > 2 THEN 10 ELSE 0)
    + (IF emergency THEN 20 ELSE 0)

\* extract_structured_features: the encounter part, then the rest of the record
ExtractStructuredFeatures(encs, conds, obs, meds, reports) ==
    LET e == ExtractEncounterFeatures(encs)
    IN  e @@
        [has_long_stay |-> HasLongStay(encs),
         has_multiple_encounters |-> Len(encs) > 1,
         num_conditions |-> Len(conds),
         has_chronic_conditions |-> HasChronicConditions(conds),
         high_condition_count |-> Len(conds) >= 3,
         num_observations |-> Len(obs),
         obs_abnormal_count |-> ObsAbnormalCount(obs),
         has_abnormal_glucose |-> HasAbnormalVital(obs, "glucose", {"high", "low"}),
         has_abnormal_hr |-> HasAbnormalVital(obs, "hr", {"high", "low"}),
         has_abnormal_temp |-> HasAbnormalVital(obs, "temp", {"high", "fever"}),
         has_abnormal_saturation |-> HasAbnormalVital(obs, "saturation", {"low"}),
         vital_signs_available |-> Len(obs) > 0,
         has_abnormal_labs |-> ObsAbnormalCount(obs) > 0,
         num_med_requests |-> meds,
         polypharmacy |-> Polypharmacy(meds),
         high_med_burden |-> Polypharmacy(meds),
         num_procedures |-> reports,
         clinical_complexity_score |->
             ClinicalComplexityScore(Len(conds), Polypharmacy(meds), HasLongStay(encs),
                                     ObsAbnormalCount(obs), e.is_emergency)]

\* no extraction has run yet
NoOut ==
    [status |-> "pending", num_encounters |-> 0, class_code |-> "None",
     is_emergency |-> FALSE, is_inpatient |-> FALSE, readmission_30d |-> FALSE,
     has_long_stay |-> FALSE, has_multiple_encounters |-> FALSE,
     num_conditions |-> 0, has_chronic_conditions |-> FALSE,
     high_condition_count |-> FALSE, num_observations |-> 0,
     obs_abnormal_count |-> 0, has_abnormal_glucose |-> FALSE,
     has_abnormal_hr |-> FALSE, has_abnormal_temp |-> FALSE,
     has_abnormal_saturation |-> FALSE, vital_signs_available |-> FALSE,
     has_abnormal_labs |-> FALSE, num_med_requests |-> 0, polypharmacy |-> FALSE,
     high_med_burden |-> FALSE, num_procedures |-> 0,
     clinical_complexity_score |-> 0]

(***************************************************************************)
(* Featurizer: the extraction step                                         *)
(***************************************************************************)
\* extract_structured_features applied to the resources fetched for the patient
Extract ==
    /\ out.status = "pending"
    /\ out' = ExtractStructuredFeatures(resources, conditions, observations,
                                        medication_requests, diagnostic_reports)
    /\ UNCHANGED <<resources, mem, disk, runs, resp, encVars, explVars, rowVars,
                   bandVars, clinVars, svcVars>>

(***************************************************************************)
(* Model service: artifact parts                                           *)
(*                                                                         *)
(* A part is identified by the training run that produced it: 0 is "not    *)
(* set" (None, [], {} in memory; no file on disk), r >= 1 is the part      *)
(* built by run r.  In memory -r is the classifier of run r constructed    *)
(* but not fitted; on disk CorruptFile is a file cut short while written.  *)
(***************************************************************************)
NotSet == 0
CorruptFile == 0 - 1
Unfitted(r) == 0 - r
MinTrainingRows == 10

\* ModelService.__init__ before load_model
InitMem == [model |-> NotSet, feature_columns |-> NotSet,
            categorical_encoders |-> NotSet, shap_explainer |-> NotSet]

EmptyDisk == [model |-> NotSet, feature_columns |-> NotSet,
              encoders |-> NotSet, metadata |-> NotSet]

NoResp == [op |-> "none", ok |-> FALSE, outcome |-> "none", rows |-> 0, usable |-> 0,
           before |-> InitMem, used |-> <<0, 0, 0>>]

\* load_model on memory m and files d: the memory afterwards and the value returned
LoadModel(m, d) ==
    IF d.model = NotSet THEN [mem |-> m, ok |-> FALSE]
    ELSE IF d.model = CorruptFile THEN [mem |-> m, ok |-> FALSE]
    ELSE LET m1 == [m EXCEPT !.model = d.model] IN
         IF d.feature_columns = CorruptFile THEN [mem |-> m1, ok |-> FALSE]
         ELSE LET m2 == IF d.feature_columns = NotSet THEN m1
                        ELSE [m1 EXCEPT !.feature_columns = d.feature_columns] IN
              IF d.encoders = CorruptFile THEN [mem |-> m2, ok |-> FALSE]
              ELSE LET m3 == IF d.encoders = NotSet THEN m2
                             ELSE [m2 EXCEPT !.categorical_encoders = d.encoders] IN
                   [mem |-> [m3 EXCEPT !.shap_explainer = d.model], ok |-> TRUE]

\* _save_model for run r stopped after `written` complete files; when `cut`,
\* the next file was opened and left truncated.  written = 4 is a full save.
SaveModel(d, r, written, cut) ==
    LET part(i, old) == IF i <= written THEN r
                        ELSE IF i = written + 1 /\ cut THEN CorruptFile
                        ELSE old
    IN  [model |-> part(1, d.model),
         feature_columns |-> part(2, d.feature_columns),
         encoders |-> part(3, d.encoders),
         metadata |-> part(4, d.metadata)]

\* train_test_split(test_size=0.2, stratify=y) raises: an empty train set, a
\* class with a single member, or fewer rows than classes on either side
StratifiedSplitRaises(pos, neg) ==
    LET n == pos + neg
        n_test == (n + 4) \div 5
        n_train == (4 * n) \div 5
        n_classes == (IF pos > 0 THEN 1 ELSE 0) + (IF neg > 0 THEN 1 ELSE 0)
    IN  \/ n = 0
        \/ n_train = 0
        \/ pos = 1
        \/ neg = 1
        \/ n_train < n_classes
        \/ n_test < n_classes

EnoughRows_offByOne(pos, neg, nulls) == pos + neg + nulls >= MinTrainingRows - 1

\* len(df) < 10 is tested on the rows as loaded
EnoughRows(pos, neg, nulls) == pos + neg + nulls >= MinTrainingRows

\* 'readmission_30d' in df_model.columns: load_training_data puts the column in
\* every row it builds, so only the frame without rows lacks it
HasTargetColumn(pos, neg, nulls) == pos + neg + nulls > 0

FailPoints == {"none", "fit", "explainer", "save"}

\* train_model on a frame with pos/neg/nulls rows labelled true/false/null.
\* fail names the library call that raises, if any; written and cut say how
\* far _save_model got when fail = "save".
TrainModel(pos, neg, nulls, fail, written, cut) ==
    LET r == runs + 1
        m1 == [mem EXCEPT !.categorical_encoders = r]
        m2 == [m1 EXCEPT !.feature_columns = r]
        m3 == [m2 EXCEPT !.model = Unfitted(r)]
        m4 == [m2 EXCEPT !.model = r]
        m5 == [m4 EXCEPT !.shap_explainer = r]
        failed == [op |-> "train", ok |-> FALSE, outcome |-> "failed",
                   rows |-> pos + neg + nulls, usable |-> pos + neg,
                   before |-> mem, used |-> <<0, 0, 0>>]
    IN  /\ runs < MaxRuns
        /\ runs' = r
        /\ UNCHANGED <<resources, out, encVars, explVars, rowVars, bandVars, clinVars, svcVars>>
        /\ IF ~EnoughRows(pos, neg, nulls)
           THEN /\ mem' = mem /\ disk' = disk
                /\ resp' = [failed EXCEPT !.outcome = "insufficient_data"]
           ELSE IF ~HasTargetColumn(pos, neg, nulls)
           THEN /\ mem' = mem /\ disk' = disk
                /\ resp' = [failed EXCEPT !.outcome = "no_target_column"]
           ELSE IF StratifiedSplitRaises(pos, neg)
           THEN /\ mem' = m2 /\ disk' = disk /\ resp' = failed
           ELSE IF fail = "fit"
           THEN /\ mem' = m3 /\ disk' = disk /\ resp' = failed
           ELSE IF fail = "explainer"
           THEN /\ mem' = m4 /\ disk' = disk /\ resp' = failed
           ELSE IF fail = "save"
           THEN /\ mem' = m5
                /\ disk' = SaveModel(disk, r, written, cut)
                /\ resp' = failed
           ELSE /\ mem' = m5
                /\ disk' = SaveModel(disk, r, 4, FALSE)
                /\ resp' = [failed EXCEPT !.ok = TRUE, !.outcome = "trained"]

\* what predict does with memory m
PredictOutcome(m) ==
    IF m.model = NotSet THEN "not_loaded"
    ELSE IF m.model < 0 THEN "error"
    ELSE IF m.feature_columns = NotSet THEN "error"
    ELSE "score"

\* predict: scores with the model, column list and encoding tables in memory
Predict ==
    /\ resp' = [op |-> "predict", ok |-> PredictOutcome(mem) = "score",
                outcome |-> PredictOutcome(mem), rows |-> 0, usable |-> 0,
                before |-> mem,
                used |-> IF PredictOutcome(mem) = "score"
                         THEN <<mem.model, mem.feature_columns, mem.categorical_encoders>>
                         ELSE <<0, 0, 0>>]
    /\ UNCHANGED <<resources, out, mem, disk, runs, encVars, explVars, rowVars, bandVars, clinVars, svcVars>>

\* A process start: ModelService() at import, then load_model() in lifespan
Restart ==
    LET first == LoadModel(InitMem, disk)
        second == LoadModel(first.mem, disk)
    IN  /\ mem' = second.mem
        /\ resp' = [op |-> "load", ok |-> second.ok,
                    outcome |-> IF second.ok THEN "loaded" ELSE "not_loaded",
                    rows |-> 0, usable |-> 0, before |-> first.mem,
                    used |-> <<0, 0, 0>>]
        /\ UNCHANGED <<resources, out, disk, runs, encVars, explVars, rowVars, bandVars, clinVars, svcVars>>

\* get_model_metrics returns None
NoMetrics ==
    [status |-> "none", model_version |-> "", training_samples |-> 0,
     test_samples |-> 0, feature_count |-> 0, training_date |-> NotSet]

\* the ModelMetrics get_model_metrics builds: literals, and the training date
\* read from the metadata file
HardcodedMetrics(metadata) ==
    [status |-> "returned", model_version |-> "v2.3.1", training_samples |-> 8450,
     test_samples |-> 2115, feature_count |-> 156, training_date |-> metadata]

\* get_model_metrics: None without a metadata file or when json.load raises
GetModelMetrics ==
    /\ metrics' = IF disk.metadata = NotSet \/ disk.metadata = CorruptFile
                  THEN NoMetrics
                  ELSE HardcodedMetrics(disk.metadata)
    /\ UNCHANGED <<resources, out, mem, disk, runs, resp, encVars, explVars, rowVars,
                   bandVars, clinVars, cacheVars, embVars, batchVars>>

(***************************************************************************)
(* Model service: the encoding table of a nominal column                   *)
(***************************************************************************)
\* The training frame and FeatureVector carry one nominal column, "state".
\* Its values are numbered in their sort order; NullValue is None / NaN.
NullValue == 0
NominalValues == 1..MaxValues

Range(f) == {f[x] : x \in DOMAIN f}

RECURSIVE SortedSeq(_)
SortedSeq(S) ==
    IF S = {} THEN <<>>
    ELSE LET m == CHOOSE x \in S : \A y \in S : x <= y
         IN  <<m>> \o SortedSeq(S \ {m})

\* astype('category').cat.categories: the distinct non-null values, sorted
Categories(col) == SortedSeq(Range(col) \ {NullValue})

\* dict(enumerate(categories)): code -> value, codes from 0
EnumerateCategories(col) ==
    [k \in 0..(Len(Categories(col)) - 1) |-> Categories(col)[k + 1]]

\* .cat.codes: the position of each row's value in the categories, -1 for null
CatCodes(col) ==
    [i \in DOMAIN col |->
        IF col[i] = NullValue THEN 0 - 1
        ELSE CHOOSE k \in DOMAIN EnumerateCategories(col) :
                 EnumerateCategories(col)[k] = col[i]]

\* {v: k for k, v in cat_mapping.items()}; a later key wins
ReverseMap(table) ==
    [v \in Range(table) |->
        CHOOSE k \in DOMAIN table :
            table[k] = v /\ \A j \in DOMAIN table : table[j] = v => j <= k]

\* the fit=False branch for one value v of the column
Transform_adhoc(encoders, v) == IF v = NullValue THEN 0 - 1 ELSE 0

Transform(encoders, v) ==
    IF "state" \in DOMAIN encoders
    THEN IF v \in DOMAIN ReverseMap(encoders["state"])
         THEN ReverseMap(encoders["state"])[v]
         ELSE 0 - 1
    ELSE IF v = NullValue THEN 0 - 1 ELSE 0

\* self.categorical_encoders = {} in __init__
NoEncoders == <<>>

NoFile == [exists |-> FALSE, cols |-> {}, entries |-> {}]

\* joblib.dump of the dict: its keys and its (column, code, value) entries
Pickle(encoders) ==
    [exists |-> TRUE,
     cols |-> DOMAIN encoders,
     entries |-> UNION {{<<c, k, encoders[c][k]>> : k \in DOMAIN encoders[c]} :
                           c \in DOMAIN encoders}]

\* joblib.load of the file
Unpickle_shifted(file) ==
    [c \in file.cols |->
        [k \in {e[2] + 1 : e \in {x \in file.entries : x[1] = c}} |->
            (CHOOSE e \in file.entries : e[1] = c /\ e[2] + 1 = k)[3]]]

Unpickle(file) ==
    [c \in file.cols |->
        [k \in {e[2] : e \in {x \in file.entries : x[1] = c}} |->
            (CHOOSE e \in file.entries : e[1] = c /\ e[2] = k)[3]]]

NoEncOut == [op |-> "none", value |-> NullValue, code |-> 0,
             before |-> NoEncoders, source |-> "none"]

\* train_model as far as the column is concerned: fit=True on the training
\* frame, and _save_model unless the run failed before it
TrainEncoders(saved) ==
    /\ categorical_encoders' =
           ("state" :> EnumerateCategories(train_column)) @@ categorical_encoders
    /\ encoded' = CatCodes(train_column)
    /\ encoders_file' = IF saved THEN Pickle(categorical_encoders') ELSE encoders_file
    /\ enc_out' = [op |-> "fit", value |-> NullValue, code |-> 0,
                   before |-> categorical_encoders, source |-> "fit"]
    /\ UNCHANGED <<resources, out, mem, disk, runs, resp, train_column, explVars, rowVars, bandVars, clinVars, svcVars>>

\* A process start: __init__ and load_model
ReloadEncoders ==
    /\ categorical_encoders' =
           IF encoders_file.exists THEN Unpickle(encoders_file) ELSE NoEncoders
    /\ enc_out' = [op |-> "load", value |-> NullValue, code |-> 0,
                   before |-> categorical_encoders,
                   source |-> IF encoders_file.exists THEN "load" ELSE "none"]
    /\ UNCHANGED <<resources, out, mem, disk, runs, resp,
                   train_column, encoded, encoders_file, explVars, rowVars, bandVars, clinVars, svcVars>>

\* predict as far as the column is concerned: fit=False on a one-row frame
TransformValue(v) ==
    /\ enc_out' = [op |-> "transform", value |-> v,
                   code |-> Transform(categorical_encoders, v),
                   before |-> categorical_encoders, source |-> enc_out.source]
    /\ UNCHANGED <<resources, out, mem, disk, runs, resp,
                   train_column, encoded, categorical_encoders, encoders_file, explVars, rowVars, bandVars, clinVars, svcVars>>

(***************************************************************************)
(* Model service: the explanation list of predict                          *)
(***************************************************************************)
\* Attributions the explainer can return for n columns: column i gets a
\* negative, zero or positive value of magnitude (i + 1) \div 2, so that
\* magnitudes tie in pairs and among the zeros.
Signs == {0 - 1, 0, 1}

Magnitude(i) == (i + 1) \div 2

AttributionVectors(n) ==
    {[i \in 1..n |-> sg[i] * Magnitude(i)] : sg \in [1..n -> Signs]}

\* [-5:] of the argsort
TopK == 5

Abs_signed(x) == x

Abs(x) == IF x < 0 THEN 0 - x ELSE x

RECURSIVE ArgsortTail_largestFirst(_, _, _)
ArgsortTail_largestFirst(v, S, k) ==
    IF k = 0 \/ S = {} THEN {<<>>}
    ELSE UNION {{<<i>> \o t : t \in ArgsortTail_largestFirst(v, S \ {i}, k - 1)} :
                   i \in {x \in S : \A y \in S : Abs(v[y]) <= Abs(v[x])}}

\* np.argsort(np.abs(v))[-k:] over the positions S: the order among equal
\* magnitudes is whatever the sort produces, so every order that ascends
\* in magnitude is possible
RECURSIVE ArgsortTail(_, _, _)
ArgsortTail(v, S, k) ==
    IF k = 0 \/ S = {} THEN {<<>>}
    ELSE UNION {{Append(t, i) : t \in ArgsortTail(v, S \ {i}, k - 1)} :
                   i \in {x \in S : \A y \in S : Abs(v[y]) <= Abs(v[x])}}

Impact_zeroIncreases(shap_value) ==
    IF shap_value >= 0 THEN "increases_risk" ELSE "decreases_risk"

Impact(shap_value) == IF shap_value > 0 THEN "increases_risk" ELSE "decreases_risk"

\* the SHAPExplanation built for position idx
Entry(v, idx) == [feature |-> idx, shap_value |-> v[idx], impact |-> Impact(v[idx])]

NoRaise == 0 - 1

NoExplOut == [status |-> "pending", available |-> FALSE, raised |-> FALSE,
              risk_score |-> FALSE, explanation |-> <<>>]

\* predict from line 249 on. available: self.shap_explainer is set; raise_at:
\* 0 when shap_values() or the argsort raises, k when the loop raises after
\* k entries were appended, NoRaise otherwise. order is the argsort result.
ExplainPrediction(available, raise_at) ==
    /\ expl_out.status = "pending"
    /\ \E order \in (IF available
                     THEN ArgsortTail(shap_values, DOMAIN shap_values, TopK)
                     ELSE {<<>>}) :
          LET kept == IF raise_at = NoRaise THEN Len(order) ELSE raise_at
          IN  /\ raise_at = NoRaise \/ raise_at < Len(order)
              /\ expl_out' = [status |-> "returned",
                              available |-> available,
                              raised |-> raise_at # NoRaise,
                              risk_score |-> TRUE,
                              explanation |->
                                  [j \in 1..kept |-> Entry(shap_values, order[j])]]
    /\ UNCHANGED <<resources, out, mem, disk, runs, resp, encVars, shap_values, rowVars, bandVars, clinVars, svcVars>>

(***************************************************************************)
(* Model service: the row predict gives to the classifier                  *)
(***************************************************************************)
\* FeatureVector fields: one optional number, the gender, the nominal
\* column and one count that is never null
FieldNames == {"age", "gender", "state", "num_encounters"}

\* columns a persisted list can name: the fields, and a nominal column of
\* categorical_cols that FeatureVector does not have
ColumnNames == FieldNames \cup {"class_code"}

NoAge == 0 - 1
NoGender == "None"
Genders == {NoGender, "male", "female", "other"}

FeatureVectors ==
    [age : {NoAge, 0, 40}, gender : Genders,
     state : {NullValue} \cup NominalValues, num_encounters : {0, 1}]

\* a missing value inside the frame
NaN == 0 - 100

\* .map({"male": 0, "female": 1})
GenderCode(g) == IF g = "male" THEN 0 ELSE IF g = "female" THEN 1 ELSE NaN

\* the one-row frame after _prepare_categorical_features(df, fit=False)
Prepared(f, encoders) ==
    [age |-> IF f.age = NoAge THEN NaN ELSE f.age,
     gender |-> GenderCode(f.gender),
     state |-> Transform(encoders, f.state),
     num_encounters |-> f.num_encounters]

FillNa_keep(x, d) == x

FillNa(x, d) == IF x = NaN THEN d ELSE x

\* df[col] = 0 for the missing columns, then df[self.feature_columns].fillna(0)
ClassifierRow(cols, f, encoders) ==
    [i \in DOMAIN cols |->
        [column |-> cols[i],
         value |-> IF cols[i] \in FieldNames
                   THEN FillNa(Prepared(f, encoders)[cols[i]], 0)
                   ELSE 0]]

NoRow == [status |-> "pending", row |-> <<>>]

\* predict up to the call of predict_proba
BuildRow ==
    /\ X.status = "pending"
    /\ X' = [status |-> "built",
             row |-> ClassifierRow(feature_columns, features, categorical_encoders)]
    /\ UNCHANGED <<resources, out, mem, disk, runs, resp, encVars, explVars,
                   feature_columns, features, bandVars, clinVars, svcVars>>

\* column lists: any list of different names, as feature_columns.json is
\* loaded without a check against FeatureVector
ColumnLists ==
    UNION {{c \in [1..n -> ColumnNames] : \A i, j \in 1..n : c[i] = c[j] => i = j} :
              n \in 0..MaxCols}

\* the tables a fit can have left for the nominal column, or none
EncoderTables ==
    {NoEncoders} \cup
    {("state" :> EnumerateCategories(col)) :
        col \in UNION {[1..n -> {NullValue} \cup NominalValues] : n \in 0..MaxColumn}}

(***************************************************************************)
(* Endpoints: the risk category                                            *)
(***************************************************************************)
\* A score s stands for s / ScoreSteps; s / ScoreSteps < 0.3 is 10 * s < 3 * ScoreSteps.
\* predict_data (batch), main.py lines 174-179
CategoryBatch(s) ==
    IF 10 * s < 3 * ScoreSteps THEN "LOW"
    ELSE IF 10 * s < 7 * ScoreSteps THEN "MEDIUM"
    ELSE "HIGH"

\* predict_readmission (by patient), main.py lines 314-319
CategoryPatient(s) ==
    IF 10 * s < 3 * ScoreSteps THEN "LOW"
    ELSE IF 10 * s < 7 * ScoreSteps THEN "MEDIUM"
    ELSE "HIGH"

CategoryCustom_inclusive(s) ==
    IF 10 * s <= 3 * ScoreSteps THEN "LOW"
    ELSE IF 10 * s <= 7 * ScoreSteps THEN "MEDIUM"
    ELSE "HIGH"

\* predict_custom_features, main.py lines 361-366
CategoryCustom(s) ==
    IF 10 * s < 3 * ScoreSteps THEN "LOW"
    ELSE IF 10 * s < 7 * ScoreSteps THEN "MEDIUM"
    ELSE "HIGH"

Endpoints == {"batch", "patient", "custom"}

NoCategory == [e \in Endpoints |-> "none"]

\* one patient of a /predict batch that has no stored prediction yet
PredictData ==
    /\ risk_category["batch"] = "none"
    /\ risk_category' = [risk_category EXCEPT !["batch"] = CategoryBatch(risk_score)]
    /\ UNCHANGED <<resources, out, mem, disk, runs, resp, encVars, explVars, rowVars,
                   risk_score, clinVars, svcVars>>

PredictReadmission ==
    /\ risk_category["patient"] = "none"
    /\ risk_category' = [risk_category EXCEPT !["patient"] = CategoryPatient(risk_score)]
    /\ UNCHANGED <<resources, out, mem, disk, runs, resp, encVars, explVars, rowVars,
                   risk_score, clinVars, svcVars>>

PredictCustomFeatures ==
    /\ risk_category["custom"] = "none"
    /\ risk_category' = [risk_category EXCEPT !["custom"] = CategoryCustom(risk_score)]
    /\ UNCHANGED <<resources, out, mem, disk, runs, resp, encVars, explVars, rowVars,
                   risk_score, clinVars, svcVars>>

(***************************************************************************)
(* Featurizer: the feature cache (patient_features table)                  *)
(*                                                                         *)
(* The handlers of featurizer/main.py are plain functions, so each request *)
(* runs on a worker thread with a database session and a FeaturizerService *)
(* of its own; the steps of two featurize requests interleave at the       *)
(* database calls.                                                         *)
(***************************************************************************)
Patients == {"p1", "p2"}

\* worker threads serving featurize requests
Calls == {1, 2}

\* what the de-identified store can hold for a patient: no medication
\* request, or enough of them for polypharmacy
UpstreamData == {0, MinPolypharmacy}

\* updated_at has no default: NULL until the first UPDATE of the row
NullTime == 0 - 1

\* the keys of the dict featurize_patient returns: the patient, the keys
\* extract_structured_features puts in its result, the two text features
FeatureFields ==
    {"patient_resource_id"} \cup ((DOMAIN NoOut) \ {"status"})
        \cup {"ner_entities", "embedding_mean"}

\* featurize_patient for a patient whose resource set holds `meds` medication
\* requests and nothing else (no text: no entities, no embedding)
FeaturizePatient(p, meds) ==
    LET structured == ExtractStructuredFeatures(<<>>, <<>>, <<>>, meds, 0)
    IN  [k \in FeatureFields |->
            IF k = "patient_resource_id" THEN p
            ELSE IF k = "ner_entities" THEN <<>>
            ELSE IF k = "embedding_mean" THEN "None"
            ELSE structured[k]]

NoRecord == [exists |-> FALSE, cols |-> <<>>, created_at |-> NullTime, updated_at |-> NullTime]

\* the keys of PatientFeatures.to_dict: the columns it lists do not include
\* the five derived indicators (the surrogate key id is left out of the
\* model: a row is identified by its position in the table)
ToDictFields ==
    (FeatureFields \ {"has_multiple_encounters", "has_long_stay", "high_med_burden",
                      "high_condition_count", "has_abnormal_labs"})
        \cup {"created_at", "updated_at"}

ToDict(row) ==
    [k \in ToDictFields |->
        IF k = "created_at" THEN row.created_at
        ELSE IF k = "updated_at" THEN row.updated_at
        ELSE row.cols[k]]

\* positions of the rows of a patient
RowsOf(tbl, p) == {i \in DOMAIN tbl : tbl[i].cols["patient_resource_id"] = p}

\* query(...).filter(patient_resource_id == p).first()
First(tbl, p) ==
    IF RowsOf(tbl, p) = {} THEN NoRecord
    ELSE tbl[CHOOSE i \in RowsOf(tbl, p) : \A j \in RowsOf(tbl, p) : i <= j]

UniqueViolation_never(tbl, p) == FALSE

\* unique=True on patient_resource_id: an INSERT for a patient that has a
\* committed row ends in IntegrityError
UniqueViolation(tbl, p) == RowsOf(tbl, p) # {}

\* db.add(PatientFeatures(**features)) and commit: created_at is the server
\* default now(), updated_at stays NULL
Insert(tbl, feats, t) ==
    Append(tbl, [exists |-> TRUE, cols |-> feats, created_at |-> t, updated_at |-> NullTime])

\* the attributes setattr changed on the loaded row
ChangedColumns(loaded, feats) == {k \in DOMAIN feats : loaded.cols[k] # feats[k]}

\* the UPDATE the commit flushes: the changed columns and onupdate now()
Update(tbl, p, loaded, feats, t) ==
    LET i == CHOOSE x \in RowsOf(tbl, p) : \A y \in RowsOf(tbl, p) : x <= y
    IN  [tbl EXCEPT ![i] =
            [@ EXCEPT !.cols = [k \in DOMAIN @ |->
                                   IF k \in ChangedColumns(loaded, feats)
                                   THEN feats[k] ELSE @[k]],
                      !.updated_at = t]]

\* PatientFeatures.updated_at < cutoff_date: never true of a NULL
PruneFilter(row, cutoff) == row.updated_at # NullTime /\ row.updated_at < cutoff

IdleCall == [pc |-> "idle", patient |-> "none", force_refresh |-> FALSE,
             features |-> <<>>, existing |-> NoRecord, source |-> "none", record |-> <<>>]

NoPrune == [days |-> 0, deleted_records |-> 0, cutoff_date |-> 0]

\* featurize_patient_with_db up to the cache lookup: a cached row is
\* returned as to_dict(), otherwise the request goes on to the upstream
FeaturizeStart(c, p, force_refresh) ==
    /\ calls[c].pc = "idle"
    /\ calls' = [calls EXCEPT ![c] =
          IF ~force_refresh /\ First(cache, p) # NoRecord
          THEN [IdleCall EXCEPT !.pc = "done", !.patient = p,
                                !.source = "cache", !.record = ToDict(First(cache, p))]
          ELSE [IdleCall EXCEPT !.pc = "fetch", !.patient = p,
                                !.force_refresh = force_refresh]]
    /\ UNCHANGED <<resources, out, mem, disk, runs, resp, encVars, explVars, rowVars,
                   bandVars, clinVars, metrics, embVars, batchVars,
                   cache, upstream, now, pruned>>

\* self.featurize_patient(patient_id): fetch and extract
FeaturizeFetch(c) ==
    /\ calls[c].pc = "fetch"
    /\ calls' = [calls EXCEPT ![c].pc = "save_query",
                              ![c].features =
                                  FeaturizePatient(calls[c].patient, upstream[calls[c].patient])]
    /\ UNCHANGED <<resources, out, mem, disk, runs, resp, encVars, explVars, rowVars,
                   bandVars, clinVars, metrics, embVars, batchVars,
                   cache, upstream, now, pruned>>

\* save_features_to_db: the query for an existing row
SaveQuery(c) ==
    /\ calls[c].pc = "save_query"
    /\ calls' = [calls EXCEPT ![c].pc = "save_commit",
                              ![c].existing = First(cache, calls[c].patient)]
    /\ UNCHANGED <<resources, out, mem, disk, runs, resp, encVars, explVars, rowVars,
                   bandVars, clinVars, metrics, embVars, batchVars,
                   cache, upstream, now, pruned>>

\* save_features_to_db from setattr / db.add to the return of
\* featurize_patient_with_db.  A commit that fails (the row to update is
\* gone, the unique index rejects the insert) is rolled back and the
\* computed dict is returned instead of the saved row.
SaveCommit(c) ==
    LET call == calls[c]
        p == call.patient
        computed == [call EXCEPT !.pc = "done", !.source = "computed",
                                 !.record = call.features]
        saved(tbl) == [call EXCEPT !.pc = "done", !.source = "saved",
                                   !.record = ToDict(First(tbl, p))]
    IN  /\ call.pc = "save_commit"
        /\ IF call.existing # NoRecord
           THEN IF RowsOf(cache, p) = {}
                THEN cache' = cache /\ calls' = [calls EXCEPT ![c] = computed]
                ELSE /\ cache' = IF ChangedColumns(call.existing, call.features) = {}
                                 THEN cache
                                 ELSE Update(cache, p, call.existing, call.features, now)
                     /\ calls' = [calls EXCEPT ![c] = saved(cache')]
           ELSE IF UniqueViolation(cache, p)
                THEN cache' = cache /\ calls' = [calls EXCEPT ![c] = computed]
                ELSE /\ cache' = Insert(cache, call.features, now)
                     /\ calls' = [calls EXCEPT ![c] = saved(cache')]
        /\ UNCHANGED <<resources, out, mem, disk, runs, resp, encVars, explVars, rowVars,
                       bandVars, clinVars, metrics, embVars, batchVars,
                   upstream, now, pruned>>

\* the data of a patient changes in the de-identified store
UpstreamChange(p) ==
    /\ \E d \in UpstreamData \ {upstream[p]} : upstream' = [upstream EXCEPT ![p] = d]
    /\ UNCHANGED <<resources, out, mem, disk, runs, resp, encVars, explVars, rowVars,
                   bandVars, clinVars, metrics, embVars, batchVars,
                   cache, calls, now, pruned>>

\* prune_old_features(days): one DELETE and its commit
PruneOldFeatures(days) ==
    LET cutoff_date == now - days
        kept == SelectSeq(cache, LAMBDA row : ~PruneFilter(row, cutoff_date))
    IN  /\ cache' = kept
        /\ pruned' = [days |-> days, deleted_records |-> Len(cache) - Len(kept),
                      cutoff_date |-> cutoff_date]
        /\ UNCHANGED <<resources, out, mem, disk, runs, resp, encVars, explVars, rowVars,
                       bandVars, clinVars, metrics, embVars, batchVars,
                   upstream, calls, now>>

\* a day passes
Tick ==
    /\ now < MaxDay
    /\ now' = now + 1
    /\ UNCHANGED <<resources, out, mem, disk, runs, resp, encVars, explVars, rowVars,
                   bandVars, clinVars, metrics, embVars, batchVars,
                   cache, upstream, calls, pruned>>

(***************************************************************************)
(* Featurizer: the embedding backend                                       *)
(***************************************************************************)
\* clinical notes, as lists of words
TextSamples == {<<"Severe", "pain.">>, <<"chronic", "cough,", "stable">>, <<"stable">>}

ChooseBackend_ranked(e) ==
    IF e.biobert THEN "biobert" ELSE IF e.sbert THEN "sbert" ELSE "simple"

\* _init_embedding: BioBERT is tried only when USE_BIOBERT is set, then the
\* sentence-transformers model, then the simple text features
ChooseBackend(e) ==
    IF e.use_biobert /\ e.biobert THEN "biobert"
    ELSE IF e.sbert THEN "sbert"
    ELSE "simple"

\* the eight numbers of the "simple" branch for one text
SimpleFeatures(text) ==
    LET count(S) == Cardinality({i \in DOMAIN text : text[i] \in S})
        flag(S) == IF count(S) > 0 THEN 1 ELSE 0
    IN  <<Len(text),
          6 * count({"Severe", "cough,", "stable"}) + 5 * count({"pain."})
              + 7 * count({"chronic"}) + Len(text) - 1,
          count({"pain."}),
          count({"cough,"}),
          count({"Severe"}),
          flag({"Severe", "pain."}),
          flag({"chronic"}),
          0>>

NoEmbOut == [status |-> "pending", backend |-> "None", texts |-> <<>>, embs |-> <<>>]

\* FeaturizerService.__init__ in an environment: the flag, and whether the
\* BioBERT and the sentence-transformers set-up succeed
Construct(use_biobert, biobert, sbert) ==
    /\ embedding_backend = "None"
    /\ env' = [use_biobert |-> use_biobert, biobert |-> biobert, sbert |-> sbert]
    /\ embedding_backend' = ChooseBackend(env')
    /\ UNCHANGED <<resources, out, mem, disk, runs, resp, encVars, explVars, rowVars,
                   bandVars, clinVars, cacheVars, metrics, batchVars,
                   emb_out>>

\* _get_embeddings(texts): None without texts or when the model call raises
\* (status "none"), otherwise one vector per text; a model's vector is
\* identified by the model and the text
GetEmbeddings(texts, raises) ==
    /\ embedding_backend # "None"
    /\ emb_out' =
          IF texts = <<>> \/ (raises /\ embedding_backend # "simple")
          THEN [status |-> "none", backend |-> embedding_backend, texts |-> texts,
                embs |-> <<>>]
          ELSE [status |-> "returned", backend |-> embedding_backend, texts |-> texts,
                embs |-> [i \in DOMAIN texts |->
                             IF embedding_backend = "simple"
                             THEN SimpleFeatures(texts[i])
                             ELSE <<embedding_backend, texts[i]>>]]
    /\ UNCHANGED <<resources, out, mem, disk, runs, resp, encVars, explVars, rowVars,
                   bandVars, clinVars, cacheVars, metrics, batchVars,
                   env, embedding_backend>>

(***************************************************************************)
(* Endpoints: the batch prediction (predict_data)                          *)
(*                                                                         *)
(* The handler is a coroutine whose loop over the patients has no await:   *)
(* the loop runs without another request of the process in between.        *)
(***************************************************************************)
\* one day in seconds, which is also the age below which a stored
\* prediction is served again; the clock `now` counts days
DaySeconds == 86400

IsRecent_ignored(age) == FALSE

\* time_since_prediction.total_seconds() < 86400
IsRecent(age) == age * DaySeconds < DaySeconds

\* no predict_data request served
NoBatch ==
    [status |-> "none", skip_cache |-> FALSE, patients |-> <<>>, total_processed |-> 0,
     has_counts |-> FALSE, successful |-> 0, failed |-> 0, predictions |-> <<>>]

\* One iteration of the loop: st holds the table, the two counters and the
\* predictions dict so far. fault says where the body of the try statement
\* raises, if anywhere: "query" is the lookup of the stored prediction or the
\* subtraction of its timestamp (the column has no time zone,
\* datetime.now(timezone.utc) has), "save" is any statement from
\* FeatureVector(**patient_data) to db.commit(), "refresh" is db.refresh.
BatchStep(st, patient_id, fault, skip_cache) ==
    LET mine == SelectSeq(st.rows, LAMBDA row : row.patient_resource_id = patient_id)
        existing_prediction ==
            CHOOSE r \in Range(mine) :
                \A q \in Range(mine) : q.prediction_timestamp <= r.prediction_timestamp
        error == [st EXCEPT !.error_count = @ + 1,
                            !.predictions = (patient_id :> "error") @@ @]
        db_prediction == [patient_resource_id |-> patient_id, prediction_timestamp |-> now]
    IN  IF ~skip_cache /\ fault = "query" THEN error
        ELSE IF /\ ~skip_cache /\ mine # <<>>
                /\ IsRecent(now - existing_prediction.prediction_timestamp)
        THEN [st EXCEPT !.success_count = @ + 1,
                        !.predictions = (patient_id :> "cached") @@ @]
        ELSE IF fault = "save" \/ PredictOutcome(mem) # "score"
        THEN error
        ELSE IF fault = "refresh"
        THEN [error EXCEPT !.rows = Append(@, db_prediction)]
        ELSE [st EXCEPT !.rows = Append(@, db_prediction),
                        !.success_count = @ + 1,
                        !.predictions = (patient_id :> "new") @@ @]

RECURSIVE BatchLoop(_, _, _, _)
\* for patient_data in patients
BatchLoop(st, patients, faults, skip_cache) ==
    IF patients = <<>> THEN st
    ELSE BatchLoop(BatchStep(st, Head(patients), Head(faults), skip_cache),
                   Tail(patients), Tail(faults), skip_cache)

\* predict_data: fetch says how the call of the featurizer's /features/all
\* ends, patients is the list it returns, faults[i] what raises for patients[i]
PredictDataRequest(skip_cache, fetch, patients, faults) ==
    LET done == BatchLoop([rows |-> prediction_rows, success_count |-> 0,
                           error_count |-> 0, predictions |-> <<>>],
                          patients, faults, skip_cache)
        answer == [NoBatch EXCEPT !.skip_cache = skip_cache]
    IN  /\ Len(done.rows) <= MaxStored
        /\ IF mem.model = NotSet
           THEN /\ batch_resp' = [answer EXCEPT !.status = "http503"]
                /\ UNCHANGED prediction_rows
           ELSE IF fetch # "ok"
           THEN /\ batch_resp' = [answer EXCEPT !.status = IF fetch = "non200" THEN "http503"
                                                          ELSE "http500"]
                /\ UNCHANGED prediction_rows
           ELSE IF patients = <<>>
           THEN /\ batch_resp' = [answer EXCEPT !.status = "empty"]
                /\ UNCHANGED prediction_rows
           ELSE /\ batch_resp' = [answer EXCEPT !.status = "processed",
                                                !.patients = patients,
                                                !.total_processed = Len(patients),
                                                !.has_counts = TRUE,
                                                !.successful = done.success_count,
                                                !.failed = done.error_count,
                                                !.predictions = done.predictions]
                /\ prediction_rows' = done.rows
        /\ UNCHANGED <<resources, out, mem, disk, runs, resp, encVars, explVars, rowVars,
                       bandVars, clinVars, cacheVars, metrics, embVars>>

(***************************************************************************)
(* Specifications                                                          *)
(***************************************************************************)
InitService ==
    /\ mem = InitMem
    /\ disk = EmptyDisk
    /\ runs = 0
    /\ resp = NoResp

IdleClin ==
    /\ conditions = <<>>
    /\ observations = <<>>
    /\ medication_requests = 0
    /\ diagnostic_reports = 0

IdleFeat ==
    /\ resources = <<>>
    /\ out = NoOut
    /\ IdleClin

\* a fresh service without files; the training column is not looked at
IdleEnc ==
    /\ train_column = <<>>
    /\ encoded = <<>>
    /\ categorical_encoders = NoEncoders
    /\ encoders_file = NoFile
    /\ enc_out = NoEncOut

IdleExpl ==
    /\ shap_values = <<>>
    /\ expl_out = NoExplOut

IdleRow ==
    /\ feature_columns = <<>>
    /\ features = [age |-> NoAge, gender |-> NoGender, state |-> NullValue,
                   num_encounters |-> 0]
    /\ X = NoRow

IdleBand ==
    /\ risk_score = 0
    /\ risk_category = NoCategory

\* an empty feature table and no request in progress; no metrics asked
IdleSvc ==
    /\ cache = <<>>
    /\ upstream = [p \in Patients |-> 0]
    /\ calls = [c \in Calls |-> IdleCall]
    /\ now = 0
    /\ pruned = NoPrune
    /\ metrics = NoMetrics
    /\ env = [use_biobert |-> FALSE, biobert |-> FALSE, sbert |-> FALSE]
    /\ embedding_backend = "None"
    /\ emb_out = NoEmbOut
    /\ prediction_rows = <<>>
    /\ batch_resp = NoBatch

\* any resource set the upstream store can return, not yet featurized
InitFeat ==
    /\ \E n \in 0..MaxEncs : resources \in [1..n -> Encounter]
    /\ IdleClin
    /\ out = NoOut
    /\ InitService
    /\ IdleEnc
    /\ IdleExpl
    /\ IdleRow
    /\ IdleBand
    /\ IdleSvc

Init ==
    /\ IdleFeat
    /\ InitService
    /\ IdleEnc
    /\ IdleExpl
    /\ IdleRow
    /\ IdleBand
    /\ IdleSvc

\* any "state" column the patient store can hold, on a fresh service
InitEnc ==
    /\ IdleFeat
    /\ InitService
    /\ \E n \in 0..MaxColumn : train_column \in [1..n -> {NullValue} \cup NominalValues]
    /\ encoded = <<>>
    /\ categorical_encoders = NoEncoders
    /\ encoders_file = NoFile
    /\ enc_out = NoEncOut
    /\ IdleExpl
    /\ IdleRow
    /\ IdleBand
    /\ IdleSvc

\* the attributions of any scored row, before predict builds the explanation
InitExpl ==
    /\ IdleFeat
    /\ InitService
    /\ IdleEnc
    /\ \E n \in 1..MaxFeatures : shap_values \in AttributionVectors(n)
    /\ expl_out = NoExplOut
    /\ IdleRow
    /\ IdleBand
    /\ IdleSvc

\* a loaded service and any request to predict
InitRow ==
    /\ IdleFeat
    /\ InitService
    /\ IdleExpl
    /\ train_column = <<>>
    /\ encoded = <<>>
    /\ categorical_encoders \in EncoderTables
    /\ encoders_file = NoFile
    /\ enc_out = NoEncOut
    /\ feature_columns \in ColumnLists
    /\ features \in FeatureVectors
    /\ X = NoRow
    /\ IdleBand
    /\ IdleSvc

\* any score predict can return, given to each endpoint once
InitBand ==
    /\ IdleFeat
    /\ InitService
    /\ IdleEnc
    /\ IdleExpl
    /\ IdleRow
    /\ risk_score \in 0..ScoreSteps
    /\ risk_category = NoCategory
    /\ IdleSvc

\* encounters of a resource set: an emergency or ambulatory visit, with or
\* without a discharge date, with or without a stay of two weeks
ScoredEncounter ==
    [class_code : {"emer", "AMB"}, start_date : {NoDate},
     end_date : {NoDate, [kind |-> "ok", t |-> 1]},
     length_of_stay_days : {NoLos, 14}]

MedCounts == {0, MinPolypharmacy - 1, MinPolypharmacy}

ReportCounts == {0, 1}

\* The fields modelled do not depend on the order of the conditions or of the
\* observations, so one order stands for each: chronic codes first, abnormal
\* observations first.
ConditionLists ==
    UNION {{c \in [1..n -> ConditionCodes] :
               \A i, j \in 1..n : (i < j /\ IsChronic(c[j])) => IsChronic(c[i])} :
              n \in 0..MaxConds}

ObservationLists ==
    UNION {{o \in [1..n -> Observation] :
               \A i, j \in 1..n : (i < j /\ IsAbnormal(o[j])) => IsAbnormal(o[i])} :
              n \in 0..MaxObs}

\* any resource set, from the empty one on, not yet featurized
InitScore ==
    /\ InitService
    /\ IdleEnc
    /\ IdleExpl
    /\ IdleRow
    /\ IdleBand
    /\ \E n \in 0..MaxEncs : resources \in [1..n -> ScoredEncounter]
    /\ conditions \in ConditionLists
    /\ observations \in ObservationLists
    /\ medication_requests \in MedCounts
    /\ diagnostic_reports \in ReportCounts
    /\ out = NoOut
    /\ IdleSvc

NextFeat == Extract

TrainInputs ==
    {t \in [pos : 0..MaxPos, neg : 0..MaxRows, nulls : 0..MaxNulls] :
        t.pos + t.neg + t.nulls <= MaxRows}

NextModel ==
    \/ \E t \in TrainInputs, fail \in FailPoints \ {"save"} :
          TrainModel(t.pos, t.neg, t.nulls, fail, 4, FALSE)
    \/ \E t \in TrainInputs, written \in 0..3, cut \in BOOLEAN :
          TrainModel(t.pos, t.neg, t.nulls, "save", written, cut)
    \/ Predict
    \/ Restart
    \/ GetModelMetrics

SpecFeat == InitFeat /\ [][NextFeat]_vars

SpecScore == InitScore /\ [][NextFeat]_vars

SpecModel == Init /\ [][NextModel]_vars

NextEnc ==
    \/ \E saved \in BOOLEAN : TrainEncoders(saved)
    \/ ReloadEncoders
    \/ \E v \in {NullValue} \cup NominalValues : TransformValue(v)

SpecEnc == InitEnc /\ [][NextEnc]_vars

NextExpl ==
    \/ ExplainPrediction(FALSE, NoRaise)
    \/ \E raise_at \in {NoRaise} \cup (0..(TopK - 1)) : ExplainPrediction(TRUE, raise_at)

SpecExpl == InitExpl /\ [][NextExpl]_vars

NextRow == BuildRow

SpecRow == InitRow /\ [][NextRow]_vars

NextBand ==
    \/ PredictData
    \/ PredictReadmission
    \/ PredictCustomFeatures

SpecBand == InitBand /\ [][NextBand]_vars

NextCache ==
    \/ \E c \in Calls, p \in Patients, force_refresh \in BOOLEAN :
          FeaturizeStart(c, p, force_refresh)
    \/ \E c \in Calls : FeaturizeFetch(c)
    \/ \E c \in Calls : SaveQuery(c)
    \/ \E c \in Calls : SaveCommit(c)
    \/ \E p \in Patients : UpstreamChange(p)
    \/ \E days \in 1..MaxDay : PruneOldFeatures(days)
    \/ Tick

\* the featurizer on an empty table
SpecCache == Init /\ [][NextCache]_vars

NextEmb ==
    \/ \E use_biobert, biobert, sbert \in BOOLEAN : Construct(use_biobert, biobert, sbert)
    \/ \E n \in 0..MaxTexts, raises \in BOOLEAN :
          \E texts \in [1..n -> TextSamples] : GetEmbeddings(texts, raises)

\* one FeaturizerService from its construction on
SpecEmb == Init /\ [][NextEmb]_vars

NextBatch ==
    \/ mem.model = NotSet /\ TrainModel(MaxPos, MaxRows - MaxPos, 0, "none", 4, FALSE)
    \/ Tick
    \/ \E skip_cache \in BOOLEAN, fetch \in {"non200", "raises"} :
          PredictDataRequest(skip_cache, fetch, <<>>, <<>>)
    \/ \E skip_cache \in BOOLEAN,
          patients \in {<<>>} \cup {<<p>> : p \in Patients}
                             \cup {pq \in Patients \X Patients : pq[1] # pq[2]} :
          \E faults \in [DOMAIN patients -> {"none", "query", "save", "refresh"}] :
              PredictDataRequest(skip_cache, "ok", patients, faults)

\* the model service trained once, with an empty predictions table; the
\* rows of the featurizer's /features/all hold each patient at most once
SpecBatch == Init /\ [][NextBatch]_vars

(***************************************************************************)
(* Readmission label: properties (SpecFeat)                                *)
(***************************************************************************)
\* an inpatient or emergency encounter
Qualifying(e) == Upper(e.class_code) \in {"IMP", "EMER"}

\* Encounter b follows encounter a in discharge order (input order on ties);
\* both have a discharge date.
Later(a, b) ==
    /\ Parsable(resources[a].end_date) /\ Parsable(resources[b].end_date)
    /\ \/ resources[a].end_date.t < resources[b].end_date.t
       \/ resources[a].end_date.t = resources[b].end_date.t /\ a < b

\* candidate pairs: an index admission a and a later admission b it can be compared with
CandidatePairs ==
    {p \in (DOMAIN resources) \X (DOMAIN resources) :
        /\ Later(p[1], p[2])
        /\ Qualifying(resources[p[1]]) /\ Qualifying(resources[p[2]])
        /\ Parsable(resources[p[2]].start_date)}

\* whole days from the discharge of p[1] to the admission of p[2]
Gap(p) == DaysBetween(resources[p[2]].start_date.t, resources[p[1]].end_date.t)

\* C1: in a returned record, a candidate pair exactly 30 whole days apart makes
\* readmission_30d true, and a single candidate pair 31 whole days apart leaves
\* it false.
C1_WindowBoundary ==
    out.status = "returned" =>
        /\ (\E p \in CandidatePairs : Gap(p) = 30) => out.readmission_30d
        /\ (Cardinality(CandidatePairs) = 1 /\ \E p \in CandidatePairs : Gap(p) = 31)
              => ~out.readmission_30d

C1_Witness ==
    /\ out.status = "returned"
    /\ out.readmission_30d
    /\ \A p \in CandidatePairs : Gap(p) = 30
    /\ \E p \in CandidatePairs :
          resources[p[2]].start_date.t - resources[p[1]].end_date.t = 61

\* C2: when every candidate pair has a gap of 0 days or less (a same-day
\* admission included), readmission_30d is not set.
C2_SameDayExcluded ==
    (out.status # "pending" /\ \A p \in CandidatePairs : Gap(p) <= 0)
        => ~out.readmission_30d

C2_Witness ==
    /\ out.status = "returned"
    /\ ~out.readmission_30d
    /\ \E p \in CandidatePairs : Gap(p) = 0
    /\ \A p \in CandidatePairs : Gap(p) <= 0

\* C3: without an inpatient or emergency encounter that has a parsable
\* discharge date, readmission_30d is false.
C3_NoIndexNoLabel ==
    (out.status # "pending" /\
     ~\E a \in DOMAIN resources :
          Qualifying(resources[a]) /\ Parsable(resources[a].end_date))
        => ~out.readmission_30d

C3_Witness ==
    /\ out.status = "returned"
    /\ ~out.readmission_30d
    /\ Len(resources) = 2
    /\ \A a \in DOMAIN resources :
          /\ Parsable(resources[a].start_date)
          /\ Qualifying(resources[a]) => resources[a].end_date = BadDate
          /\ ~Qualifying(resources[a]) => Parsable(resources[a].end_date)
    /\ \E a \in DOMAIN resources : Qualifying(resources[a])
    /\ \E a \in DOMAIN resources : ~Qualifying(resources[a])

\* C4: an inpatient or emergency encounter without a parsable discharge date,
\* admitted more than 0 and at most 30 days after the discharge of an index
\* admission, makes readmission_30d true.
C4_TargetWithoutDischarge ==
    out.status = "returned" =>
        \A a, b \in DOMAIN resources :
            (/\ Qualifying(resources[a]) /\ Parsable(resources[a].end_date)
             /\ Qualifying(resources[b]) /\ ~Parsable(resources[b].end_date)
             /\ Parsable(resources[b].start_date)
             /\ DaysBetween(resources[b].start_date.t, resources[a].end_date.t) > 0
             /\ DaysBetween(resources[b].start_date.t, resources[a].end_date.t) <= 30)
            => out.readmission_30d

ArtifactFiles == {"model", "feature_columns", "encoders", "metadata"}

\* C5: whenever predict returns a score, the model, the feature-column list
\* and the encoding tables it scored with come from one training run; a
\* training run leaves no mix of old and new parts for predictions to use.
C5_PredictUsesOneRun ==
    (resp.op = "predict" /\ resp.outcome = "score")
        => (resp.used[1] = resp.used[2] /\ resp.used[2] = resp.used[3])

\* C6: when train_model returns a failure report, the model, feature-column
\* list, encoding tables and explainer in memory are those from before the call.
C6_FailedTrainingKeepsMemory ==
    (resp.op = "train" /\ ~resp.ok) => mem = resp.before

\* C7: the files on disk never form a set that load_model accepts and that
\* holds parts written by two different training runs.
C7_NoLoadableMixOnDisk ==
    LoadModel(InitMem, disk).ok =>
        \A f, g \in ArtifactFiles : (disk[f] >= 1 /\ disk[g] >= 1) => disk[f] = disk[g]

\* C8: load_model returns true only when all four files are present and were
\* written by the same training run.
C8_LoadNeedsAllFour ==
    (resp.op = "load" /\ resp.ok) =>
        /\ disk.model >= 1
        /\ \A f \in ArtifactFiles : disk[f] = disk.model

\* C9: with a model loaded and no feature-column list for it, predict reports
\* that the model is not ready.  (Every list train_model stores names the same
\* columns, so the list that does not match the model is the missing one.)
C9_RefusesWithoutMatchingColumns ==
    (/\ resp.op = "predict"
     /\ resp.before.model >= 1
     /\ resp.before.feature_columns = NotSet)
        => resp.outcome = "not_loaded"

\* C10: train_model reports a failure whenever fewer than 10 rows have a
\* non-null label.
C10_FailsBelowTenUsableRows ==
    (resp.op = "train" /\ resp.usable < MinTrainingRows) => ~resp.ok

\* C11: a train_model call on fewer than 10 rows returns a failure report
\* that names the insufficient data, and leaves the four artifact files as
\* they were.
C11_InsufficientDataNoWrite ==
    [][(runs' # runs /\ resp'.rows < MinTrainingRows)
          => (/\ resp'.op = "train"
              /\ ~resp'.ok
              /\ resp'.outcome = "insufficient_data"
              /\ disk' = disk)]_vars

C11_Witness ==
    /\ resp.op = "train"
    /\ resp.rows = MinTrainingRows - 1
    /\ resp.outcome = "insufficient_data"
    /\ disk.model >= 1
    /\ disk.metadata = disk.model

\* C28: a load_model that returns false on a fresh service leaves the model,
\* the feature-column list, the encoding tables and the explainer as
\* __init__ set them, so that predict answers "Model not loaded".
C28_FailedLoadKeepsMemory ==
    (resp.op = "load" /\ ~resp.ok)
        => (mem = InitMem /\ PredictOutcome(mem) = "not_loaded")

(***************************************************************************)
(* Encoding table: properties (SpecEnc)                                    *)
(***************************************************************************)
\* C12: with a table fit for the column, transforming a value that is not in
\* the table gives the sentinel -1, and the table is the same before and
\* after the transform.
C12_UnseenGetsSentinel ==
    (/\ enc_out.op = "transform"
     /\ "state" \in DOMAIN enc_out.before
     /\ enc_out.value \notin Range(enc_out.before["state"]))
        => (/\ enc_out.code = 0 - 1
            /\ categorical_encoders = enc_out.before)

C12_Witness ==
    /\ enc_out.op = "transform"
    /\ "state" \in DOMAIN enc_out.before
    /\ Range(enc_out.before["state"]) # {}
    /\ enc_out.value \in NominalValues \ Range(enc_out.before["state"])
    /\ enc_out.code = 0 - 1

\* C13: with a table in memory, fit in this process or reloaded from the
\* saved file, every value of the fitted column is transformed to the code
\* fit=True gave it, and two different values of the column have different
\* codes.
C13_TransformAgreesWithFit ==
    /\ \A i, j \in DOMAIN encoded :
          train_column[i] # train_column[j] => encoded[i] # encoded[j]
    /\ (enc_out.op = "transform" /\ "state" \in DOMAIN enc_out.before)
          => \A i \in DOMAIN encoded :
                train_column[i] = enc_out.value => enc_out.code = encoded[i]

C13_Witness ==
    /\ enc_out.op = "transform"
    /\ enc_out.source = "load"
    /\ Cardinality(Range(train_column) \ {NullValue}) >= 2
    /\ enc_out.value \in Range(train_column)
    /\ enc_out.code >= 1

(***************************************************************************)
(* Explanation list: properties (SpecExpl)                                 *)
(***************************************************************************)
\* C14: when the explainer is missing, or explanation generation raises at
\* any point, predict returns the risk score and an empty explanation list.
C14_RaiseGivesEmptyList ==
    (expl_out.status = "returned" /\ (~expl_out.available \/ expl_out.raised))
        => (expl_out.risk_score /\ expl_out.explanation = <<>>)

Reported == {expl_out.explanation[j].feature : j \in DOMAIN expl_out.explanation}

\* C15: a completed explanation has min(5, number of columns) entries for
\* different features, no feature left out has a larger magnitude than a
\* reported one, and each impact is increases_risk for a positive
\* attribution and decreases_risk otherwise.
C15_TopFiveByMagnitude ==
    (expl_out.status = "returned" /\ expl_out.available /\ ~expl_out.raised)
        => /\ Len(expl_out.explanation) =
                  (IF Len(shap_values) < 5 THEN Len(shap_values) ELSE 5)
           /\ Cardinality(Reported) = Len(expl_out.explanation)
           /\ \A f \in Reported, o \in (DOMAIN shap_values) \ Reported :
                  ~(shap_values[o] * shap_values[o] > shap_values[f] * shap_values[f])
           /\ \A j \in DOMAIN expl_out.explanation :
                  LET e == expl_out.explanation[j]
                  IN  /\ e.shap_value = shap_values[e.feature]
                      /\ e.impact = (IF e.shap_value > 0 THEN "increases_risk"
                                     ELSE "decreases_risk")

C15_Witness ==
    /\ expl_out.status = "returned" /\ expl_out.available /\ ~expl_out.raised
    /\ Len(shap_values) > 5
    /\ \E f \in Reported : shap_values[f] = 0
    /\ \E f \in Reported : shap_values[f] < 0
    /\ \E f \in Reported : shap_values[f] > 0
    /\ \E o \in (DOMAIN shap_values) \ Reported : shap_values[o] = 0

\* C30: the entries of a returned explanation ascend in magnitude of the
\* attribution (a complete list ends with a feature of the largest
\* magnitude of all columns), and no feature is listed twice.
C30_AscendingNoRepeat ==
    expl_out.status = "returned"
        => /\ \A i, j \in DOMAIN expl_out.explanation :
                  i < j =>
                      /\ expl_out.explanation[i].shap_value * expl_out.explanation[i].shap_value
                            <= expl_out.explanation[j].shap_value * expl_out.explanation[j].shap_value
                      /\ expl_out.explanation[i].feature # expl_out.explanation[j].feature
           /\ (expl_out.available /\ ~expl_out.raised)
                 => \A o \in DOMAIN shap_values :
                        LET last == expl_out.explanation[Len(expl_out.explanation)]
                        IN  shap_values[o] * shap_values[o] <= last.shap_value * last.shap_value

C30_Witness ==
    /\ expl_out.status = "returned" /\ expl_out.available /\ ~expl_out.raised
    /\ Len(shap_values) > 5
    /\ Len(expl_out.explanation) = 5
    /\ expl_out.explanation[1].shap_value = 0 - 1
    /\ expl_out.explanation[4].shap_value = 0 - 3
    /\ expl_out.explanation[5].shap_value = 3

(***************************************************************************)
(* Classifier row: properties (SpecRow)                                    *)
(***************************************************************************)
\* the input carries no value for this field
IsNull(name) ==
    \/ name = "age" /\ features.age = NoAge
    \/ name = "gender" /\ features.gender = NoGender
    \/ name = "state" /\ features.state = NullValue

\* the row has the persisted columns in the persisted order
ExactColumns ==
    /\ Len(X.row) = Len(feature_columns)
    /\ \A i \in DOMAIN X.row : X.row[i].column = feature_columns[i]

\* C16 as stated: the row has exactly the persisted columns in their order,
\* and every column that the input lacks or holds as null is 0.
C16_NullsAndAbsentAreZero ==
    X.status = "built"
        => /\ ExactColumns
           /\ \A i \in DOMAIN X.row :
                  (feature_columns[i] \notin FieldNames \/ IsNull(feature_columns[i]))
                      => X.row[i].value = 0

\* C16, amended: the row has exactly the persisted columns in their order;
\* a column the input lacks is 0, a null number or gender is 0, and a null
\* value of the nominal column is the sentinel -1.
C16_RowMatchesColumns ==
    X.status = "built"
        => /\ ExactColumns
           /\ \A i \in DOMAIN X.row :
                  /\ feature_columns[i] \notin FieldNames => X.row[i].value = 0
                  /\ (IsNull(feature_columns[i]) /\ feature_columns[i] # "state")
                        => X.row[i].value = 0
                  /\ (IsNull(feature_columns[i]) /\ feature_columns[i] = "state")
                        => X.row[i].value = 0 - 1

C16_Witness ==
    /\ X.status = "built"
    /\ \E i, j \in DOMAIN X.row :
          /\ feature_columns[i] = "class_code" /\ X.row[i].value = 0
          /\ feature_columns[j] = "state" /\ features.state = NullValue
          /\ X.row[j].value = 0 - 1
    /\ features.age = NoAge
    /\ "state" \in DOMAIN categorical_encoders

(***************************************************************************)
(* Risk category: properties (SpecBand)                                    *)
(***************************************************************************)
\* C17: every endpoint gives a score below 0.3 the category LOW, a score
\* from 0.3 to below 0.7 MEDIUM and a score of 0.7 or more HIGH, so the
\* three endpoints give one score the same single category.
C17_SameBandEverywhere ==
    /\ \A e \in Endpoints :
          risk_category[e] # "none" =>
              /\ risk_category[e] = "LOW" <=> 10 * risk_score < 3 * ScoreSteps
              /\ risk_category[e] = "MEDIUM" <=>
                     (3 * ScoreSteps <= 10 * risk_score /\ 10 * risk_score < 7 * ScoreSteps)
              /\ risk_category[e] = "HIGH" <=> 10 * risk_score >= 7 * ScoreSteps
    /\ \A e, f \in Endpoints :
          (risk_category[e] # "none" /\ risk_category[f] # "none")
              => risk_category[e] = risk_category[f]

C17_Witness ==
    /\ 10 * risk_score = 7 * ScoreSteps
    /\ \A e \in Endpoints : risk_category[e] = "HIGH"

(***************************************************************************)
(* Feature record: properties (SpecFeat, SpecScore)                        *)
(***************************************************************************)
\* C18: extract_structured_features does not end in an exception, whatever
\* the encounters hold (a null class_code, dates that do not parse).
C18_NeverRaises == out.status # "raised"

EmptyResourceSet ==
    /\ resources = <<>>
    /\ conditions = <<>>
    /\ observations = <<>>
    /\ medication_requests = 0
    /\ diagnostic_reports = 0

\* C19: on the empty resource set the call returns a record in which every
\* count is 0, every boolean (readmission_30d too) is false and the
\* complexity score is 0.
C19_EmptySetGivesDefaults ==
    (EmptyResourceSet /\ out.status # "pending")
        => /\ out.status = "returned"
           /\ \A f \in {"num_encounters", "num_conditions", "num_observations",
                        "obs_abnormal_count", "num_med_requests", "num_procedures"} :
                  out[f] = 0
           /\ \A f \in {"is_emergency", "is_inpatient", "readmission_30d",
                        "has_long_stay", "has_multiple_encounters",
                        "has_chronic_conditions", "high_condition_count",
                        "has_abnormal_glucose", "has_abnormal_hr", "has_abnormal_temp",
                        "has_abnormal_saturation", "vital_signs_available",
                        "has_abnormal_labs", "polypharmacy", "high_med_burden"} :
                  out[f] = FALSE
           /\ out.clinical_complexity_score = 0

C19_Witness == EmptyResourceSet /\ out.status = "returned"

\* the last encounter in discharge order is an emergency
RecentIsEmergency ==
    /\ SortedEncs(resources) # <<>>
    /\ Upper(SortedEncs(resources)[Len(SortedEncs(resources))].class_code) = "EMER"

\* C20: the complexity score of a returned record, in hundredths, is 30 for
\* three or more conditions, plus 20 for polypharmacy, plus 20 for an average
\* stay above 7 days, plus 10 for more than two abnormal observations, plus
\* 20 for an emergency as most recent encounter; it lies between 0 and 100,
\* and it is 90 when all but the abnormal observations apply.
C20_ComplexityScore ==
    out.status = "returned"
        => /\ out.clinical_complexity_score =
                  (IF out.num_conditions >= 3 THEN 30 ELSE 0)
                  + (IF out.polypharmacy THEN 20 ELSE 0)
                  + (IF out.has_long_stay THEN 20 ELSE 0)
                  + (IF out.obs_abnormal_count > 2 THEN 10 ELSE 0)
                  + (IF out.is_emergency THEN 20 ELSE 0)
           /\ out.clinical_complexity_score >= 0
           /\ out.clinical_complexity_score <= 100
           /\ (/\ Len(conditions) >= 3
               /\ medication_requests >= 5
               /\ SumLos(resources) > 7 * Len(resources)
               /\ RecentIsEmergency
               /\ Cardinality({i \in DOMAIN observations :
                                  observations[i].value_string = "High"}) <= 2)
                 => out.clinical_complexity_score = 90

C20_Witness ==
    /\ out.status = "returned"
    /\ out.clinical_complexity_score = 90
    /\ Len(conditions) >= 3
    /\ medication_requests >= 5
    /\ Len(resources) = 2
    /\ SumLos(resources) > 7 * Len(resources)
    /\ RecentIsEmergency
    /\ Len(observations) = 3
    /\ out.obs_abnormal_count = 2

(***************************************************************************)
(* Feature cache: properties (SpecCache)                                   *)
(***************************************************************************)
\* C21: a request without force_refresh that finds a cached row returns that
\* row without going to the upstream and leaves the table as it was; a
\* request with force_refresh always goes to the upstream, and when it
\* returns the table holds one row for the patient, with the features the
\* request computed, and the rows of the other patients are unchanged.
C21_CacheHitOrRefresh ==
    [][\A c \in Calls :
          LET p == calls'[c].patient IN
          /\ (calls[c].pc = "idle" /\ calls'[c].pc = "done")
                => /\ cache' = cache
                   /\ First(cache, p) # NoRecord
                   /\ calls'[c].record = ToDict(First(cache, p))
          /\ (calls[c].pc = "idle" /\ calls'[c].force_refresh)
                => calls'[c].pc = "fetch"
          /\ (calls[c].pc = "save_commit" /\ calls'[c].pc = "done"
              /\ calls[c].force_refresh)
                => /\ Cardinality(RowsOf(cache', p)) = 1
                   /\ First(cache', p).cols = calls[c].features
                   /\ \A q \in Patients \ {p} : First(cache', q) = First(cache, q)]_vars

\* the two requests were for this patient, both looked into the cache, found
\* nothing and went to the upstream, and both have returned
BothMissed(c, d, p) ==
    /\ c # d
    /\ \A x \in {c, d} :
          /\ calls[x].pc = "done"
          /\ calls[x].patient = p
          /\ ~calls[x].force_refresh
          /\ calls[x].source # "cache"

\* C22: when two requests for one patient both find the cache empty, both
\* return a feature record, and afterwards (no prune request having run) the
\* table holds exactly one row for the patient, with the features one of the
\* two requests computed.
C22_InterleavedCallsOneRecord ==
    \A c, d \in Calls, p \in Patients :
        (BothMissed(c, d, p) /\ pruned = NoPrune)
            => /\ \A x \in {c, d} :
                     /\ calls[x].source \in {"saved", "computed"}
                     /\ calls[x].record["patient_resource_id"] = p
               /\ Cardinality(RowsOf(cache, p)) = 1
               /\ First(cache, p).cols \in {calls[c].features, calls[d].features}

C22_Witness ==
    \E c, d \in Calls, p \in Patients :
        /\ BothMissed(c, d, p) /\ pruned = NoPrune
        /\ calls[c].source = "saved" /\ calls[c].existing = NoRecord
        /\ calls[d].source = "computed" /\ calls[d].existing = NoRecord
        /\ calls[c].features # calls[d].features
        /\ First(cache, p).cols = calls[c].features

\* the day a row was last written: its update, or its insert when it was
\* never updated
LastWritten(row) == IF row.updated_at = NullTime THEN row.created_at ELSE row.updated_at

\* C23: a prune request deletes every row last written (inserted or
\* updated) more than `days` days ago and keeps every other row.
C23_PruneDeletesStale ==
    [][\A days \in 1..MaxDay :
          PruneOldFeatures(days)
              => cache' = SelectSeq(cache, LAMBDA row : ~(LastWritten(row) < now - days))]_vars

\* C24: whatever its source (the cache, the row just saved, the computation
\* alone), a returned record has every field extract_structured_features
\* computes, the derived indicators included, with the computed value.
C24_SameFieldsFromEverySource ==
    \A c \in Calls :
        calls[c].pc = "done"
            => \A k \in FeatureFields :
                  /\ k \in DOMAIN calls[c].record
                  /\ calls[c].source # "cache" => calls[c].record[k] = calls[c].features[k]

(***************************************************************************)
(* Model metrics: properties (SpecModel)                                   *)
(***************************************************************************)
\* C25: a get_model_metrics call that follows a successful train_model
\* returns the values that run reported and persisted: its model version
\* and its numbers of training and test rows.
C25_MetricsAreThePersistedOnes ==
    [][(resp.op = "train" /\ resp.ok /\ metrics' # metrics)
          => /\ metrics'.status = "returned"
             /\ metrics'.model_version = "v1.0.0"
             /\ metrics'.training_samples = (4 * resp.usable) \div 5
             /\ metrics'.test_samples = resp.usable - (4 * resp.usable) \div 5
             /\ metrics'.training_date = runs]_vars

(***************************************************************************)
(* Embedding backend: properties (SpecEmb)                                 *)
(***************************************************************************)
\* C26 as stated: the tag of a constructed service is the first of BioBERT,
\* sentence-transformers and simple text features whose set-up succeeds, and
\* no later call changes it.
C26_FirstOfThreeRanked ==
    [][/\ embedding_backend' # "None" =>
              embedding_backend' = (IF env'.biobert THEN "biobert"
                                    ELSE IF env'.sbert THEN "sbert"
                                    ELSE "simple")
       /\ embedding_backend # "None" => embedding_backend' = embedding_backend]_vars

\* C26, amended: BioBERT is a candidate only when USE_BIOBERT is set; the tag
\* is the first candidate whose set-up succeeds (BioBERT, sentence-transformers,
\* simple text features), _get_embeddings uses that tag, and no later call
\* changes it.
C26_FirstEnabledBackend ==
    [][/\ embedding_backend' # "None" =>
              /\ (env'.use_biobert /\ env'.biobert) => embedding_backend' = "biobert"
              /\ (~(env'.use_biobert /\ env'.biobert) /\ env'.sbert)
                    => embedding_backend' = "sbert"
              /\ (~(env'.use_biobert /\ env'.biobert) /\ ~env'.sbert)
                    => embedding_backend' = "simple"
       /\ embedding_backend # "None" => embedding_backend' = embedding_backend
       /\ emb_out'.status # "pending" => emb_out'.backend = embedding_backend']_vars

C26_Witness ==
    /\ ~env.use_biobert /\ env.biobert /\ env.sbert
    /\ embedding_backend = "sbert"
    /\ emb_out.status = "returned"
    /\ emb_out.backend = "sbert"
    /\ Len(emb_out.texts) = 2

(***************************************************************************)
(* Batch prediction: properties (SpecBatch)                                *)
(***************************************************************************)
\* the rows of patient p in the table tbl
PredictionsOf(tbl, p) == SelectSeq(tbl, LAMBDA row : row.patient_resource_id = p)

\* patient p has a stored prediction, and the latest one is less than
\* 24 hours old
HasRecentPrediction(p) ==
    /\ PredictionsOf(prediction_rows, p) # <<>>
    /\ \E r \in Range(PredictionsOf(prediction_rows, p)) :
          /\ \A q \in Range(PredictionsOf(prediction_rows, p)) :
                q.prediction_timestamp <= r.prediction_timestamp
          /\ (now - r.prediction_timestamp) * DaySeconds < DaySeconds

\* a predict_data request that went through the loop has been served
BatchServed ==
    /\ batch_resp' # batch_resp \/ prediction_rows' # prediction_rows
    /\ batch_resp'.status = "processed"

\* C29: a predict_data response over fetched patients counts each patient
\* once, as successful or as failed, so successful + failed is
\* total_processed; every patient of the list has an entry, whatever failed
\* for the patients before it; and with skip_cache false a patient whose
\* latest stored prediction is less than 24 hours old gets no new row.
C29_EachPatientCountedOnce ==
    [][BatchServed
          => /\ batch_resp'.total_processed = Len(batch_resp'.patients)
             /\ batch_resp'.successful + batch_resp'.failed = batch_resp'.total_processed
             /\ DOMAIN batch_resp'.predictions = Range(batch_resp'.patients)
             /\ batch_resp'.successful =
                    Cardinality({p \in DOMAIN batch_resp'.predictions :
                                    batch_resp'.predictions[p] \in {"cached", "new"}})
             /\ batch_resp'.failed =
                    Cardinality({p \in DOMAIN batch_resp'.predictions :
                                    batch_resp'.predictions[p] = "error"})
             /\ ~batch_resp'.skip_cache
                   => \A p \in Range(batch_resp'.patients) :
                          HasRecentPrediction(p)
                              => PredictionsOf(prediction_rows', p)
                                   = PredictionsOf(prediction_rows, p)]_vars

\* the first patient of the list failed and the second, whose stored
\* prediction is less than a day old, was then served from the table
C29_Witness ==
    /\ batch_resp.status = "processed"
    /\ ~batch_resp.skip_cache
    /\ Len(batch_resp.patients) = 2
    /\ batch_resp.predictions[batch_resp.patients[1]] = "error"
    /\ batch_resp.predictions[batch_resp.patients[2]] = "cached"
    /\ HasRecentPrediction(batch_resp.patients[2])
    /\ batch_resp.successful = 1 /\ batch_resp.failed = 1

====
